---- MODULE Spec2Model ----
(***************************************************************************)
(* State containers of the Energent.ai dashboard scaffold:                 *)
(*   - the global zustand store (persist + immer middleware), and          *)
(*   - the jotai atoms uiAtom, aiAgentAtom, chatAtom and userAtom.         *)
(* Every handler is one atomic step: it computes the next value of its     *)
(* cell from the current one and replaces the cell.                        *)
(***************************************************************************)
EXTENDS Integers, Sequences, FiniteSets, TLC

VARIABLES
  store,      \* data fields of useGlobalStore's state
  storage,    \* localStorage: key -> stored blob
  outcome,    \* how the last dispatched handler ended
  dev,        \* import.meta.env.DEV of the build
  online,     \* navigator.onLine when the module was loaded
  ui,         \* value of uiAtom
  timers,     \* pending setTimeout callbacks of showToastAtom, oldest first
  doc,        \* document.title and the 'dark' class of the root element
  agent,      \* value of aiAgentAtom
  chat,       \* value of chatAtom
  user,       \* value of userAtom
  vnc,        \* value of vncAtom
  recent,     \* what jotai holds of recentNotificationsAtom since its last read
  dashboard,  \* Dashboard's isLoading and its pending handleInitialize
  now,        \* Date.now(), in milliseconds
  fuel        \* handlers that may still be dispatched in this behaviour

storeVars == <<store, storage, dev, online>>
atomVars == <<ui, timers, doc, agent, chat, user, vnc, recent, dashboard>>
vars == <<store, storage, outcome, dev, online, ui, timers, doc, agent, chat,
          user, vnc, recent, dashboard, now, fuel>>

-----------------------------------------------------------------------------
(* Bounds of the exploration *)

MaxOps == 2          \* handlers dispatched after a store is created
MaxOpsFull == 1      \* handlers dispatched on a store whose lists are full
MaxTicks == 1        \* milliseconds the clock advances in one behaviour
MaxDays == 1         \* days that pass while the page stays open
MaxStreamOps == 4    \* handlers dispatched while a response is streamed

\* outcomes of Math.random().toString(36).substr(2, 9) in an id
Rand == {1, 2}

\* Math.random() is drawn only where an id is generated
RandIf(drawn) == IF drawn THEN Rand ELSE {1}

-----------------------------------------------------------------------------
(* Program constants *)

MetricsCap == 100
SecurityEventsCap == 1000
DebugLogsCap == 500
DebugErrorsCap == 100
MemoryAlertThreshold == 104857600
MemoryCriticalThreshold == 209715200
RenderAlertThreshold == 50
RenderHighThreshold == 100
UI_STATE == "energent_ui_state"
NullDate == -1

-----------------------------------------------------------------------------
(* JavaScript helpers *)

\* Array.prototype.slice(-n): the last n elements
\* variant: the list is never trimmed
SliceLast_NoTrim(s, n) == s

\* variant: the oldest n elements are kept instead of the newest
SliceLast_KeepOldest(s, n) ==
  IF Len(s) <= n THEN s ELSE SubSeq(s, 1, n)

SliceLast(s, n) ==
  IF Len(s) <= n THEN s ELSE SubSeq(s, Len(s) - n + 1, Len(s))

\* variant: the list is never trimmed
SliceFirst_NoTrim(s, n) == s

\* variant: slice(-n), the last n elements
SliceFirst_Last(s, n) ==
  IF Len(s) <= n THEN s ELSE SubSeq(s, Len(s) - n + 1, Len(s))

\* Array.prototype.slice(0, n): the first n elements
SliceFirst(s, n) ==
  IF Len(s) <= n THEN s ELSE SubSeq(s, 1, n)

\* Array.prototype.findIndex / find on the id, 1-based; 0 when nothing matches
findIndex(list, id) ==
  IF \E i \in 1..Len(list) : list[i].id = id
  THEN CHOOSE i \in 1..Len(list) :
         list[i].id = id /\ \A j \in 1..(i - 1) : list[j].id # id
  ELSE 0

\* Object.assign(target, source) / { ...target, ...source }
Assign(target, source) ==
  [k \in DOMAIN target \cup DOMAIN source |->
     IF k \in DOMAIN source THEN source[k] ELSE target[k]]

\* `${Date.now()}-${Math.random().toString(36).substr(2, 9)}`
generateId(t, r) == <<t, r>>

-----------------------------------------------------------------------------
(* Global store: initial state *)

defaultSettings ==
  [autoSave |-> TRUE, saveInterval |-> 30000, defaultAgent |-> "gpt-4",
   defaultVNCQuality |-> [compression |-> 6, jpegQuality |-> 6,
                          colorDepth |-> 24, frameRate |-> 30],
   analytics |-> TRUE, crashReporting |-> TRUE]

initialState(d, o) ==
  [isInitialized |-> FALSE,
   settings |-> defaultSettings,
   performance |-> [metrics |-> <<>>, isMonitoring |-> d, alerts |-> <<>>],
   security |-> [events |-> <<>>, isSecure |-> TRUE,
                 lastSecurityCheck |-> NullDate],
   features |-> [aiStreaming |-> TRUE, vncCompression |-> TRUE,
                 performanceMonitoring |-> TRUE, securityLogging |-> TRUE,
                 offlineMode |-> FALSE, experimentalFeatures |-> FALSE,
                 debugMode |-> d],
   connectivity |-> [isOnline |-> o, apiStatus |-> "disconnected",
                     wsStatus |-> "disconnected", lastConnected |-> NullDate],
   debug |-> [enabled |-> d, logs |-> <<>>, errors |-> <<>>]]

-----------------------------------------------------------------------------
(* Global store: the recipes passed to set(), as functions of the state.   *)
(* A recipe that dereferences a missing field throws: Throws(recipe) tells *)
(* when, and the state is then left as it was.                             *)

\* the entries the handlers push
StampedEvent(event, t, r) ==
  Assign(event, [id |-> generateId(t, r), timestamp |-> t])

StampedLog(log, t, r) ==
  Assign(log, [id |-> generateId(t, r), timestamp |-> t])

StampedError(error, context, t, r) ==
  [id |-> generateId(t, r), error |-> error, context |-> context,
   timestamp |-> t, user |-> "current-user"]

HasLogs(s) == "logs" \in DOMAIN s.debug
HasErrors(s) == "errors" \in DOMAIN s.debug

initialize(s, t) ==
  [s EXCEPT !.isInitialized = TRUE, !.connectivity.lastConnected = t]

setInitialized(s, initialized) ==
  [s EXCEPT !.isInitialized = initialized]

updateSettings(s, settings) ==
  [s EXCEPT !.settings = Assign(s.settings, settings)]

resetSettings(s) ==
  [s EXCEPT !.settings = defaultSettings]

MemoryAlert(metric, t, r) ==
  [id |-> generateId(t, r), type |-> "memory",
   severity |-> IF metric.memoryUsage > MemoryCriticalThreshold
                THEN "critical" ELSE "high",
   timestamp |-> t, resolved |-> FALSE]

\* variant: a render time of exactly 100 is already 'high'
RenderAlert_AtLeast(metric, t, r) ==
  [id |-> generateId(t, r), type |-> "render",
   severity |-> IF metric.renderTime >= RenderHighThreshold
                THEN "high" ELSE "medium",
   timestamp |-> t, resolved |-> FALSE]

RenderAlert(metric, t, r) ==
  [id |-> generateId(t, r), type |-> "render",
   severity |-> IF metric.renderTime > RenderHighThreshold
                THEN "high" ELSE "medium",
   timestamp |-> t, resolved |-> FALSE]

addPerformanceMetric(s, metric, t, r1, r2) ==
  LET pushed == Append(s.performance.metrics, metric)
      kept == IF Len(pushed) > MetricsCap
              THEN SliceLast(pushed, MetricsCap) ELSE pushed
      a1 == IF metric.memoryUsage > MemoryAlertThreshold
            THEN Append(s.performance.alerts, MemoryAlert(metric, t, r1))
            ELSE s.performance.alerts
      a2 == IF metric.renderTime > RenderAlertThreshold
            THEN Append(a1, RenderAlert(metric, t, r2))
            ELSE a1
  IN [s EXCEPT !.performance.metrics = kept, !.performance.alerts = a2]

togglePerformanceMonitoring(s) ==
  [s EXCEPT !.performance.isMonitoring = ~s.performance.isMonitoring]

addPerformanceAlert(s, alert, t, r) ==
  [s EXCEPT !.performance.alerts =
     Append(@, Assign(alert, [id |-> generateId(t, r), timestamp |-> t]))]

resolvePerformanceAlert(s, alertId) ==
  LET i == findIndex(s.performance.alerts, alertId)
  IN IF i = 0 THEN s
     ELSE [s EXCEPT !.performance.alerts[i].resolved = TRUE]

clearPerformanceData(s) ==
  [s EXCEPT !.performance.metrics = <<>>, !.performance.alerts = <<>>]

\* variant: only a 'critical' event clears isSecure
addSecurityEvent_CriticalOnly(s, event, t, r) ==
  LET pushed == Append(s.security.events, StampedEvent(event, t, r))
      kept == IF Len(pushed) > SecurityEventsCap
              THEN SliceLast(pushed, SecurityEventsCap) ELSE pushed
  IN [s EXCEPT !.security.events = kept,
               !.security.isSecure =
                  IF event.severity = "critical" THEN FALSE ELSE @]

addSecurityEvent(s, event, t, r) ==
  LET pushed == Append(s.security.events, StampedEvent(event, t, r))
      kept == IF Len(pushed) > SecurityEventsCap
              THEN SliceLast(pushed, SecurityEventsCap) ELSE pushed
  IN [s EXCEPT !.security.events = kept,
               !.security.isSecure =
                  IF event.severity \in {"critical", "high"} THEN FALSE ELSE @]

updateSecurityStatus(s, isSecure) ==
  [s EXCEPT !.security.isSecure = isSecure]

DayMs == 86400000

\* variant: an event of exactly 24 hours ago still counts
performSecurityCheck_Inclusive(s, t) ==
  LET Recent(e) == e.severity = "critical" /\ t - e.timestamp <= DayMs
      recentCriticalEvents == SelectSeq(s.security.events, Recent)
  IN [s EXCEPT !.security.lastSecurityCheck = t,
               !.security.isSecure = (Len(recentCriticalEvents) = 0)]

performSecurityCheck(s, t) ==
  LET Recent(e) == e.severity = "critical" /\ t - e.timestamp < DayMs
      recentCriticalEvents == SelectSeq(s.security.events, Recent)
  IN [s EXCEPT !.security.lastSecurityCheck = t,
               !.security.isSecure = (Len(recentCriticalEvents) = 0)]

setFeatureFlag(s, feature, enabled) ==
  [s EXCEPT !.features = Assign(@, [f \in {feature} |-> enabled])]

\* !undefined is true: toggling a flag that is not in the map sets it
toggleFeatureFlag(s, feature) ==
  LET old == IF feature \in DOMAIN s.features THEN s.features[feature] ELSE FALSE
  IN [s EXCEPT !.features = Assign(@, [f \in {feature} |-> ~old])]

setOnlineStatus(s, isOnline, t) ==
  [s EXCEPT !.connectivity.isOnline = isOnline,
            !.connectivity.lastConnected = IF isOnline THEN t ELSE @]

updateApiStatus(s, status, t) ==
  [s EXCEPT !.connectivity.apiStatus = status,
            !.connectivity.lastConnected = IF status = "connected" THEN t ELSE @]

updateWsStatus(s, status, t) ==
  [s EXCEPT !.connectivity.wsStatus = status,
            !.connectivity.lastConnected = IF status = "connected" THEN t ELSE @]

toggleDebug(s) ==
  [s EXCEPT !.debug.enabled = ~s.debug.enabled]

addDebugLogThrows(s) == s.debug.enabled /\ ~HasLogs(s)

addDebugLog(s, log, t, r) ==
  IF ~s.debug.enabled THEN s
  ELSE LET pushed == Append(s.debug.logs, StampedLog(log, t, r))
           kept == IF Len(pushed) > DebugLogsCap
                   THEN SliceLast(pushed, DebugLogsCap) ELSE pushed
       IN [s EXCEPT !.debug = Assign(@, [logs |-> kept])]

addErrorLogThrows(s) == ~HasErrors(s)

addErrorLog(s, error, context, t, r) ==
  LET pushed == Append(s.debug.errors, StampedError(error, context, t, r))
      kept == IF Len(pushed) > DebugErrorsCap
              THEN SliceLast(pushed, DebugErrorsCap) ELSE pushed
  IN [s EXCEPT !.debug = Assign(@, [errors |-> kept])]

clearDebugLogs(s) ==
  [s EXCEPT !.debug = Assign(@, [logs |-> <<>>, errors |-> <<>>])]

\* variant: the lists are emptied, the settings are kept
reset_KeepSettings(s, d, o) ==
  [initialState(d, o) EXCEPT !.settings = s.settings]

reset(s, d, o) == initialState(d, o)

-----------------------------------------------------------------------------
(* Persist middleware *)

\* localStorage with no key set
NoStorage == [k \in {} |-> 0]

\* partialize: the part of the state that is written to storage
\* variant: the whole debug record is persisted
partialize_WholeDebug(s) ==
  [settings |-> s.settings, features |-> s.features, debug |-> s.debug]

partialize(s) ==
  [settings |-> s.settings, features |-> s.features,
   debug |-> [enabled |-> s.debug.enabled]]

\* setItem: JSON.stringify({ state: partialize(get()), version: 0 })
serialize(s) == [state |-> partialize(s), version |-> 0]

setItem(stg, s) == Assign(stg, [k \in {UI_STATE} |-> serialize(s)])

\* default merge of persist: { ...currentState, ...persistedState }
merge(persistedState, currentState) == Assign(currentState, persistedState)

\* hydration of a newly created store from what storage holds
hydrate(stg, d, o) ==
  IF UI_STATE \in DOMAIN stg
  THEN merge(stg[UI_STATE].state, initialState(d, o))
  ELSE initialState(d, o)

-----------------------------------------------------------------------------
(* uiAtom: initial value and the recipes of its write functions *)

ErrorsCap == 10
NotificationsCap == 50
DefaultToastDuration == 5000

initialUIState ==
  [theme |-> "system", sidebarOpen |-> TRUE, sidebarCollapsed |-> FALSE,
   loading |-> FALSE, errors |-> <<>>, modals |-> <<>>, toasts |-> <<>>,
   notifications |-> <<>>, pageTitle |-> "Energent.ai", breadcrumbs |-> <<>>]

\* the page as index.html gives it, before any atom is written
initialDocument == [title |-> "index.html", dark |-> FALSE]

themeAtomRead(u) == u.theme
themeAtomWrite(u, theme) == [u EXCEPT !.theme = theme]

\* root.classList.toggle('dark', ...) in themeAtom's write function
themeAtomDocument(d, theme, prefersDark) ==
  [d EXCEPT !.dark = IF theme = "system" THEN prefersDark ELSE theme = "dark"]

sidebarOpenAtomRead(u) == u.sidebarOpen
sidebarOpenAtomWrite(u, open) == [u EXCEPT !.sidebarOpen = open]

sidebarCollapsedAtomRead(u) == u.sidebarCollapsed
sidebarCollapsedAtomWrite(u, collapsed) ==
  [u EXCEPT !.sidebarCollapsed = collapsed]

loadingAtomRead(u) == u.loading
loadingAtomWrite(u, loading) == [u EXCEPT !.loading = loading]

pageTitleAtomRead(u) == u.pageTitle
\* variant: only document.title is set, the cell keeps its value
pageTitleAtomWrite_DocumentOnly(u, title) == u

pageTitleAtomWrite(u, title) == [u EXCEPT !.pageTitle = title]

breadcrumbsAtomRead(u) == u.breadcrumbs
breadcrumbsAtomWrite(u, breadcrumbs) == [u EXCEPT !.breadcrumbs = breadcrumbs]

\* variant: opening or closing the sidebar also expands it
toggleSidebarAtom_Expand(u) ==
  [u EXCEPT !.sidebarOpen = ~u.sidebarOpen, !.sidebarCollapsed = FALSE]

toggleSidebarAtom(u) == [u EXCEPT !.sidebarOpen = ~u.sidebarOpen]

addErrorAtom(u, error, t, r) ==
  LET newError == Assign(error, [id |-> generateId(t, r), timestamp |-> t,
                                 resolved |-> FALSE])
      unshifted == <<newError>> \o u.errors
  IN [u EXCEPT !.errors = IF Len(unshifted) > ErrorsCap
                          THEN SliceFirst(unshifted, ErrorsCap)
                          ELSE unshifted]

removeErrorAtom(u, errorId) ==
  LET Keep(e) == e.id # errorId
  IN [u EXCEPT !.errors = SelectSeq(@, Keep)]

resolveErrorAtom(u, errorId) ==
  LET i == findIndex(u.errors, errorId)
  IN IF i = 0 THEN u ELSE [u EXCEPT !.errors[i].resolved = TRUE]

openModalAtom(u, modal, t, r) ==
  [u EXCEPT !.modals =
     Append(@, Assign(modal, [id |-> generateId(t, r), isOpen |-> TRUE]))]

closeModalAtom_Remove(u, modalId) ==
  LET Keep(m) == m.id # modalId
  IN [u EXCEPT !.modals = SelectSeq(@, Keep)]

closeModalAtom(u, modalId) ==
  LET i == findIndex(u.modals, modalId)
  IN IF i = 0 THEN u ELSE [u EXCEPT !.modals[i].isOpen = FALSE]

removeModalAtom(u, modalId) ==
  LET Keep(m) == m.id # modalId
  IN [u EXCEPT !.modals = SelectSeq(@, Keep)]

\* toast.duration || 5000: a missing or zero duration gives the default
ToastDuration(toast) ==
  IF "duration" \in DOMAIN toast /\ toast.duration # 0
  THEN toast.duration ELSE DefaultToastDuration

NewToast(toast, t, r) ==
  Assign(toast, [id |-> generateId(t, r), duration |-> ToastDuration(toast)])

showToastAtom(u, toast, t, r) ==
  [u EXCEPT !.toasts = Append(@, NewToast(toast, t, r))]

\* setTimeout(() => set(removeToastAtom, newToast.id), newToast.duration)
\* variant: no timeout is scheduled
showToastAtomTimers_NoTimeout(q, toast, t, r) == q

showToastAtomTimers(q, toast, t, r) ==
  Append(q, [toastId |-> NewToast(toast, t, r).id,
             due |-> t + NewToast(toast, t, r).duration])

\* variant: splice(findIndex(...), 1), which removes the first match only
\* and, with findIndex's -1 for no match, the last element
removeToastAtom_Splice(u, toastId) ==
  LET i == findIndex(u.toasts, toastId)
      k == IF i = 0 THEN Len(u.toasts) ELSE i
  IN [u EXCEPT !.toasts = [j \in 1..(Len(@) - (IF Len(@) = 0 THEN 0 ELSE 1)) |->
                             IF j < k THEN @[j] ELSE @[j + 1]]]

\* variant: the whole list is dropped
removeToastAtom_Clear(u, toastId) == [u EXCEPT !.toasts = <<>>]

removeToastAtom(u, toastId) ==
  LET Keep(toast) == toast.id # toastId
  IN [u EXCEPT !.toasts = SelectSeq(@, Keep)]

addNotificationAtom(u, notification, t, r) ==
  LET newNotification ==
        Assign(notification, [id |-> generateId(t, r), timestamp |-> t,
                              read |-> FALSE])
      unshifted == <<newNotification>> \o u.notifications
  IN [u EXCEPT !.notifications = IF Len(unshifted) > NotificationsCap
                                 THEN SliceFirst(unshifted, NotificationsCap)
                                 ELSE unshifted]

markNotificationReadAtom(u, notificationId) ==
  LET i == findIndex(u.notifications, notificationId)
  IN IF i = 0 THEN u ELSE [u EXCEPT !.notifications[i].read = TRUE]

markAllNotificationsReadAtom(u) ==
  [u EXCEPT !.notifications =
     [i \in 1..Len(u.notifications) |-> [u.notifications[i] EXCEPT !.read = TRUE]]]

removeNotificationAtom(u, notificationId) ==
  LET Keep(n) == n.id # notificationId
  IN [u EXCEPT !.notifications = SelectSeq(@, Keep)]

clearAllNotificationsAtom(u) == [u EXCEPT !.notifications = <<>>]

\* the message-only toasts of showSuccessToastAtom .. showInfoToastAtom
showSuccessToastAtom(message) == [type |-> "success", message |-> message]
showErrorToastAtom(message) == [type |-> "error", message |-> message]
showWarningToastAtom(message) == [type |-> "warning", message |-> message]
showInfoToastAtom(message) == [type |-> "info", message |-> message]

\* computed atoms
unresolvedErrorsAtom(u) ==
  LET Open(e) == ~e.resolved IN SelectSeq(u.errors, Open)
openModalsAtom(u) == LET Open(m) == m.isOpen IN SelectSeq(u.modals, Open)
unreadNotificationsAtom(u) ==
  LET Unread(n) == ~n.read IN SelectSeq(u.notifications, Unread)
unreadNotificationCountAtom(u) == Len(unreadNotificationsAtom(u))
hasActiveToastsAtom(u) == Len(u.toasts) > 0

\* the read function of recentNotificationsAtom, evaluated at time t
recentNotificationsAtom(u, t) ==
  LET oneDayAgo == t - DayMs
      Recent(notification) == notification.timestamp > oneDayAgo
  IN SelectSeq(u.notifications, Recent)

-----------------------------------------------------------------------------
(* aiAgentAtom: initial value and the recipes of its write functions.      *)
(* A value that may be null is a sequence of length 0 (null) or 1.         *)

ConversationCap == 50
NoError == "null"

initialAIAgentState ==
  [agents |-> <<>>, activeAgent |-> <<>>, isProcessing |-> FALSE,
   lastResponse |-> <<>>, conversationHistory |-> <<>>, error |-> NoError,
   streamingMessage |-> <<>>]

setActiveAgentAtom(a, ag) == [a EXCEPT !.activeAgent = ag, !.error = NoError]

\* variant: the agent is always pushed
addAgentAtom_Push(a, ag) == [a EXCEPT !.agents = Append(@, ag)]

addAgentAtom(a, ag) ==
  LET existingIndex == findIndex(a.agents, ag.id)
  IN IF existingIndex # 0
     THEN [a EXCEPT !.agents[existingIndex] = ag]
     ELSE [a EXCEPT !.agents = Append(@, ag)]

removeAgentAtom(a, agentId) ==
  LET Keep(x) == x.id # agentId
  IN [a EXCEPT !.agents = SelectSeq(@, Keep),
               !.activeAgent = IF a.activeAgent # <<>> /\ a.activeAgent[1].id = agentId
                               THEN <<>> ELSE @]

\* variant: the active agent is left with its old status
updateAgentStatusAtom_ListOnly(a, agentId, status, t) ==
  LET i == findIndex(a.agents, agentId)
  IN IF i = 0 THEN a
     ELSE [a EXCEPT !.agents[i].status = status,
                    !.agents[i].lastActiveAt = t]

updateAgentStatusAtom(a, agentId, status, t) ==
  LET i == findIndex(a.agents, agentId)
      listed == IF i = 0 THEN a
                ELSE [a EXCEPT !.agents[i].status = status,
                               !.agents[i].lastActiveAt = t]
  IN IF a.activeAgent # <<>> /\ a.activeAgent[1].id = agentId
     THEN [listed EXCEPT !.activeAgent[1].status = status,
                         !.activeAgent[1].lastActiveAt = t]
     ELSE listed

setProcessingAtom(a, processing) ==
  [a EXCEPT !.isProcessing = processing,
            !.streamingMessage = IF ~processing THEN <<>> ELSE @]

setErrorAtom(a, error) == [a EXCEPT !.error = error, !.isProcessing = FALSE]

startStreamingMessageAtom(a, messageId, t) ==
  [a EXCEPT !.streamingMessage =
              <<[id |-> messageId, content |-> <<>>, isComplete |-> FALSE,
                 startTime |-> t]>>,
            !.isProcessing = TRUE]

\* variant: the chunk is put before the content
updateStreamingMessageAtom_Prepend(a, chunk) ==
  IF a.streamingMessage = <<>> THEN a
  ELSE [a EXCEPT !.streamingMessage[1].content = <<chunk>> \o @]

\* content is the sequence of the chunks appended so far
updateStreamingMessageAtom(a, chunk) ==
  IF a.streamingMessage = <<>> THEN a
  ELSE [a EXCEPT !.streamingMessage[1].content = @ \o <<chunk>>]

completeStreamingMessageAtom(a) ==
  IF a.streamingMessage = <<>> THEN a
  ELSE [a EXCEPT !.streamingMessage[1].isComplete = TRUE,
                 !.lastResponse = <<a.streamingMessage[1].content>>,
                 !.isProcessing = FALSE]

addConversationEntryAtom(a, entry) ==
  LET pushed == Append(a.conversationHistory, entry)
  IN [a EXCEPT !.conversationHistory =
        IF Len(pushed) > ConversationCap
        THEN SliceLast(pushed, ConversationCap) ELSE pushed]

updateAgentPerformanceAtom(a, agentId, performance, t) ==
  LET i == findIndex(a.agents, agentId)
      Updated(p) == Assign(Assign(p, performance), [lastEvaluatedAt |-> t])
      listed == IF i = 0 THEN a
                ELSE [a EXCEPT !.agents[i].performance = Updated(@)]
  IN IF a.activeAgent # <<>> /\ a.activeAgent[1].id = agentId
     THEN [listed EXCEPT !.activeAgent[1].performance = Updated(@)]
     ELSE listed

clearConversationHistoryAtom(a) == [a EXCEPT !.conversationHistory = <<>>]

-----------------------------------------------------------------------------
(* chatAtom: the loading and error flags *)

initialChatState ==
  [currentSession |-> <<>>, sessions |-> <<>>, isLoading |-> FALSE,
   error |-> NoError, isTyping |-> FALSE, typingUsers |-> <<>>]

chatSetLoadingAtom(c, loading) == [c EXCEPT !.isLoading = loading]

chatSetErrorAtom(c, error) == [c EXCEPT !.error = error, !.isLoading = FALSE]

chatSetTypingAtom(c, isTyping) == [c EXCEPT !.isTyping = isTyping]

clearChatAtom(c) == initialChatState

-----------------------------------------------------------------------------
(* userAtom: the preferences *)

defaultPreferences ==
  [theme |-> "system", language |-> "en",
   notifications |-> [email |-> TRUE, push |-> TRUE, inApp |-> TRUE,
                      frequency |-> "realtime"],
   ui |-> [sidebarCollapsed |-> FALSE, compactMode |-> FALSE,
           animationsEnabled |-> TRUE]]

initialUserState ==
  [currentUser |-> <<>>, isAuthenticated |-> FALSE, isLoading |-> FALSE,
   error |-> NoError, preferences |-> defaultPreferences, sessions |-> <<>>]

userPreferencesAtomRead(us) == us.preferences

userPreferencesAtomWrite(us, preferences) ==
  [us EXCEPT !.preferences = Assign(@, preferences)]

updateThemePreferenceAtom(us, theme) == [us EXCEPT !.preferences.theme = theme]

updateNotificationPreferencesAtom(us, notifications) ==
  [us EXCEPT !.preferences.notifications = Assign(@, notifications)]

updateUIPreferencesAtom(us, uiPrefs) ==
  [us EXCEPT !.preferences.ui = Assign(@, uiPrefs)]

userSetLoadingAtom(us, loading) == [us EXCEPT !.isLoading = loading]

setUserErrorAtom(us, error) == [us EXCEPT !.error = error, !.isLoading = FALSE]

addUserSessionAtom(us, session) ==
  LET existingIndex == findIndex(us.sessions, session.id)
  IN IF existingIndex # 0
     THEN [us EXCEPT !.sessions[existingIndex] = session]
     ELSE [us EXCEPT !.sessions = Append(@, session)]

updateSessionActivityAtom(us, sessionId, t) ==
  LET i == findIndex(us.sessions, sessionId)
  IN IF i = 0 THEN us ELSE [us EXCEPT !.sessions[i].lastActivity = t]

endUserSessionAtom(us, sessionId) ==
  LET i == findIndex(us.sessions, sessionId)
  IN IF i = 0 THEN us ELSE [us EXCEPT !.sessions[i].isActive = FALSE]

logoutUserAtom(us) ==
  [us EXCEPT !.currentUser = <<>>, !.isAuthenticated = FALSE,
             !.error = NoError,
             !.sessions = [i \in 1..Len(us.sessions) |->
                             [us.sessions[i] EXCEPT !.isActive = FALSE]]]

clearUserDataAtom(us) ==
  [initialUserState EXCEPT !.preferences = us.preferences]

-----------------------------------------------------------------------------
(* vncAtom and its write functions. activeSession is <<>> or <<session>>;  *)
(* connectionError is NoError for null.                                    *)

\* t is the time at which the module was loaded
initialVNCState(t) ==
  [sessions |-> <<>>, activeSession |-> <<>>, isConnecting |-> FALSE,
   connectionError |-> NoError,
   performance |-> [frameRate |-> 0, latency |-> 0, bandwidth |-> 0,
                    packetLoss |-> 0, lastUpdated |-> t],
   settings |-> [defaultQuality |-> [compression |-> 6, jpegQuality |-> 6,
                                     colorDepth |-> 24, frameRate |-> 30],
                 autoReconnect |-> TRUE, showCursor |-> TRUE,
                 viewOnly |-> FALSE, clipboardSync |-> TRUE]]

setActiveSessionAtom(v, session) ==
  [v EXCEPT !.activeSession = session, !.connectionError = NoError]

addSessionAtom(v, session) ==
  LET existingIndex == findIndex(v.sessions, session.id)
  IN IF existingIndex # 0
     THEN [v EXCEPT !.sessions[existingIndex] = session]
     ELSE [v EXCEPT !.sessions = Append(@, session)]

removeSessionAtom(v, sessionId) ==
  LET Keep(x) == x.id # sessionId
  IN [v EXCEPT !.sessions = SelectSeq(@, Keep),
               !.activeSession =
                  IF v.activeSession # <<>> /\ v.activeSession[1].id = sessionId
                  THEN <<>> ELSE @]

updateSessionStatusAtom(v, sessionId, status, t) ==
  LET i == findIndex(v.sessions, sessionId)
      listed == IF i = 0 THEN v
                ELSE [v EXCEPT !.sessions[i].status = status,
                               !.sessions[i].lastActiveAt = t]
  IN IF v.activeSession # <<>> /\ v.activeSession[1].id = sessionId
     THEN [listed EXCEPT !.activeSession[1].status = status,
                         !.activeSession[1].lastActiveAt = t]
     ELSE listed

setConnectingAtom(v, connecting) ==
  [v EXCEPT !.isConnecting = connecting,
            !.connectionError = IF connecting THEN NoError ELSE @]

\* variant: the error is stored, isConnecting is left as it is
setConnectionErrorAtom_KeepConnecting(v, error) ==
  [v EXCEPT !.connectionError = error]

setConnectionErrorAtom(v, error) ==
  [v EXCEPT !.connectionError = error, !.isConnecting = FALSE]

updatePerformanceMetricsAtom(v, metrics, t) ==
  [v EXCEPT !.performance = Assign(Assign(@, metrics), [lastUpdated |-> t])]

updateVNCSettingsAtom(v, settings) ==
  [v EXCEPT !.settings = Assign(@, settings)]

updateViewportAtom(v, viewport) ==
  IF v.activeSession = <<>> THEN v
  ELSE [v EXCEPT !.activeSession[1].viewport = Assign(@, viewport)]

-----------------------------------------------------------------------------
(* Inputs of the store's handlers *)

MiB == 1048576

\* what the application passes to the store's methods
StoreInputs ==
  [settings |-> {[autoSave |-> FALSE],
                 [saveInterval |-> 60000, analytics |-> FALSE]},
   alerts |-> {[type |-> "network", message |-> "slow", severity |-> "low",
                resolved |-> FALSE]},
   events |-> {[type |-> "intrusion", severity |-> sev, description |-> "d",
                source |-> "s", resolved |-> FALSE] :
                 sev \in {"low", "medium", "high", "critical"}},
   features |-> {"offlineMode", "betaFlag"},
   statuses |-> {"connected", "error"},
   logs |-> {[level |-> "info", message |-> "m"]},
   errors |-> {"TypeError"},
   contexts |-> {"undefined", "Dashboard"}]

MetricInputs(t) ==
  {[renderTime |-> 16, memoryUsage |-> 50 * MiB, timestamp |-> t],
   [renderTime |-> 51, memoryUsage |-> 200 * MiB + 1, timestamp |-> t]}

\* samples at and just above each threshold of the alerts
ThresholdMetrics(t) ==
  {[renderTime |-> rt, memoryUsage |-> mu, timestamp |-> t] :
     rt \in {50, 51, 100, 101},
     mu \in {100 * MiB, 100 * MiB + 1, 200 * MiB, 200 * MiB + 1}}

\* the ids in a list, and one that is in no list
IdsOf(list) == {list[i].id : i \in 1..Len(list)} \cup {generateId(0, 0)}

-----------------------------------------------------------------------------
(* States reached by filling a list up to its cap, one add at a time *)

StartNow == 1000

\* every list at its cap, the i-th entry added at millisecond i; debugging
\* is switched on first when it is off
FullStore(d, o) ==
  LET s0 == initialState(d, o)
      s1 == IF s0.debug.enabled THEN s0 ELSE [s0 EXCEPT !.debug.enabled = TRUE]
  IN [s1 EXCEPT
        !.performance.metrics =
           [i \in 1..MetricsCap |->
              [renderTime |-> 16, memoryUsage |-> 50 * MiB, timestamp |-> i]],
        !.security.events =
           [i \in 1..SecurityEventsCap |->
              StampedEvent([type |-> "intrusion", severity |-> "low",
                            description |-> "d", source |-> "s",
                            resolved |-> FALSE], i, 1)],
        !.debug.logs =
           [i \in 1..DebugLogsCap |->
              StampedLog([level |-> "info", message |-> "m"], i, 1)],
        !.debug.errors =
           [i \in 1..DebugErrorsCap |->
              StampedError("TypeError", "undefined", i, 1)]]

-----------------------------------------------------------------------------
(* Global store: actions *)

CanDispatch == fuel > 0

\* set(recipe): the next state replaces the current one, then persist
\* writes the partialized state to storage
Commit(s) ==
  /\ CanDispatch
  /\ store' = s
  /\ storage' = setItem(storage, s)
  /\ outcome' = "committed"
  /\ fuel' = fuel - 1
  /\ UNCHANGED <<dev, online, now>>
  /\ UNCHANGED atomVars

\* the recipe threw inside produce: set is not reached
Throw ==
  /\ CanDispatch
  /\ outcome' = "threw"
  /\ fuel' = fuel - 1
  /\ UNCHANGED <<store, storage, dev, online, now>>
  /\ UNCHANGED atomVars

\* the page is loaded again: a new store is created from initialState and
\* hydrated from storage; whether hydration writes the state back depends
\* on the version of the persist middleware
Reload ==
  /\ CanDispatch
  /\ \E o \in BOOLEAN :
       /\ online' = o
       /\ store' = hydrate(storage, dev, o)
  /\ storage' \in {storage, setItem(storage, store')}
  /\ outcome' = "reloaded"
  /\ fuel' = fuel - 1
  /\ UNCHANGED <<dev, now>>
  /\ UNCHANGED atomVars

\* a millisecond passes
Tick ==
  /\ now < StartNow + MaxTicks
  /\ now' = now + 1
  /\ UNCHANGED <<store, storage, outcome, dev, online, fuel>>
  /\ UNCHANGED atomVars

\* 24 hours pass while the page stays open
DayPasses ==
  /\ now < StartNow + MaxDays * DayMs
  /\ now' = now + DayMs
  /\ UNCHANGED <<store, storage, outcome, dev, online, fuel>>
  /\ UNCHANGED atomVars

\* Dashboard: const [isLoading, setIsLoading] = useState(false); no
\* handleInitialize is waiting for its timeout
initialDashboard == [isLoading |-> FALSE, due |-> NullDate]


StoreInit ==
  /\ dev \in BOOLEAN
  /\ online = TRUE
  /\ \/ /\ store = initialState(dev, online)
        /\ storage \in {NoStorage, setItem(NoStorage, store)}
        /\ fuel = MaxOps
     \/ /\ dev
        /\ store = FullStore(dev, online)
        /\ storage = setItem(NoStorage, store)
        /\ fuel = MaxOpsFull
  /\ outcome = "created"
  /\ now = StartNow
  /\ ui = initialUIState
  /\ timers = <<>>
  /\ doc = initialDocument
  /\ agent = initialAIAgentState
  /\ chat = initialChatState
  /\ user = initialUserState
  /\ vnc = initialVNCState(StartNow)
  /\ recent = <<>>
  /\ dashboard = initialDashboard

\* the methods of the security slice
SecurityNext ==
  \/ \E e \in StoreInputs.events, r \in Rand :
          Commit(addSecurityEvent(store, e, now, r))
  \/ \E b \in BOOLEAN : Commit(updateSecurityStatus(store, b))
  \/ Commit(performSecurityCheck(store, now))

StoreNext ==
  \/ Commit(initialize(store, now))
  \/ \E b \in BOOLEAN : Commit(setInitialized(store, b))
  \/ \E p \in StoreInputs.settings : Commit(updateSettings(store, p))
  \/ Commit(resetSettings(store))
  \/ \E m \in MetricInputs(now) :
       \E r1 \in RandIf(m.memoryUsage > MemoryAlertThreshold),
          r2 \in RandIf(m.renderTime > RenderAlertThreshold) :
         Commit(addPerformanceMetric(store, m, now, r1, r2))
  \/ Commit(togglePerformanceMonitoring(store))
  \/ \E a \in StoreInputs.alerts, r \in Rand :
          Commit(addPerformanceAlert(store, a, now, r))
  \/ \E id \in IdsOf(store.performance.alerts) :
          Commit(resolvePerformanceAlert(store, id))
  \/ Commit(clearPerformanceData(store))
  \/ SecurityNext
  \/ \E f \in StoreInputs.features, b \in BOOLEAN :
          Commit(setFeatureFlag(store, f, b))
  \/ \E f \in StoreInputs.features : Commit(toggleFeatureFlag(store, f))
  \/ \E b \in BOOLEAN : Commit(setOnlineStatus(store, b, now))
  \/ \E st \in StoreInputs.statuses : Commit(updateApiStatus(store, st, now))
  \/ \E st \in StoreInputs.statuses : Commit(updateWsStatus(store, st, now))
  \/ Commit(toggleDebug(store))
  \/ \E l \in StoreInputs.logs, r \in Rand :
          IF addDebugLogThrows(store)
          THEN Throw
          ELSE Commit(addDebugLog(store, l, now, r))
  \/ \E e \in StoreInputs.errors, c \in StoreInputs.contexts, r \in Rand :
          IF addErrorLogThrows(store)
          THEN Throw
          ELSE Commit(addErrorLog(store, e, c, now, r))
  \/ Commit(clearDebugLogs(store))
  \/ Commit(reset(store, dev, online))
  \/ Reload
  \/ Tick

SpecStore == StoreInit /\ [][StoreNext]_vars

\* the security slice of a store that stays open for days
SpecSecurity ==
  StoreInit /\ [][\/ SecurityNext
                  \/ Commit(reset(store, dev, online))
                  \/ Tick
                  \/ DayPasses]_vars

-----------------------------------------------------------------------------
(* Inputs of the atoms' write functions *)

\* what the application passes to the atoms' write functions; resolved and
\* isOpen are given the value the write function must override
AtomInputs ==
  [themes |-> {"light", "dark", "system"},
   titles |-> {"Energent.ai", "Chat"},
   breadcrumbs |-> {<<>>, <<[label |-> "Home", href |-> "/"]>>},
   appErrors |-> {[type |-> "network", message |-> "m", resolved |-> TRUE]},
   modals |-> {[type |-> "confirm", isOpen |-> FALSE]},
   toasts |-> {[type |-> "info", message |-> "m"],
               [type |-> "error", message |-> "m", duration |-> 3000]},
   messages |-> {"m"},
   notifications |-> {[type |-> "info", title |-> "t", message |-> "m"]},
   agentIds |-> {"a1", "a2"},
   agentStatuses |-> {"idle", "processing"},
   agents |-> {[id |-> id, status |-> st, lastActiveAt |-> 0,
                performance |-> [successRate |-> 1, lastEvaluatedAt |-> 0]] :
                 id \in {"a1", "a2"}, st \in {"idle", "processing"}},
   errorStrings |-> {NoError, "failed"},
   messageIds |-> {"msg1"},
   chunks |-> {"a", "b"},
   performances |-> {[successRate |-> 0]},
   preferences |->
     {[theme |-> "dark"],
      [language |-> "fr",
       notifications |-> [email |-> FALSE, push |-> FALSE, inApp |-> FALSE,
                          frequency |-> "daily"]]},
   notificationPreferences |-> {[email |-> FALSE]},
   uiPreferences |-> {[compactMode |-> TRUE]}]

ConversationEntry(t, r) ==
  [id |-> generateId(t, r), agentId |-> "a1", responseTime |-> 100,
   timestamp |-> t]

\* what the application passes to the write functions of vncAtom and to the
\* session atoms of userAtom
SessionInputs ==
  [sessionIds |-> {"s1", "s2"},
   vncStatuses |-> {"connecting", "connected"},
   sessions |-> {[id |-> id, host |-> "h", status |-> st, lastActiveAt |-> 0,
                  viewport |-> [width |-> 800, scale |-> 1]] :
                   id \in {"s1", "s2"}, st \in {"connecting", "connected"}},
   metrics |-> {[latency |-> 250]},
   settings |-> {[viewOnly |-> TRUE]},
   viewports |-> {[scale |-> 2]},
   userSessionIds |-> {"u1", "u2"},
   userSessions |-> {[id |-> id, userId |-> "user", lastActivity |-> 0,
                      isActive |-> act] :
                       id \in {"u1", "u2"}, act \in BOOLEAN}]

-----------------------------------------------------------------------------
(* States reached by filling the atoms' capped lists, one add at a time:   *)
(* the i-th entry was added at millisecond i.                              *)

FullUIState ==
  [initialUIState EXCEPT
     !.errors =
        [k \in 1..ErrorsCap |->
           Assign([type |-> "network", message |-> "m"],
                  [id |-> generateId(ErrorsCap + 1 - k, 1),
                   timestamp |-> ErrorsCap + 1 - k, resolved |-> FALSE])],
     !.notifications =
        [k \in 1..NotificationsCap |->
           Assign([type |-> "info", title |-> "t", message |-> "m"],
                  [id |-> generateId(NotificationsCap + 1 - k, 1),
                   timestamp |-> NotificationsCap + 1 - k, read |-> FALSE])]]

\* two agents were added and the first one was made the active agent
FullAIAgentState ==
  LET a1 == [id |-> "a1", status |-> "idle", lastActiveAt |-> 0,
             performance |-> [successRate |-> 1, lastEvaluatedAt |-> 0]]
      a2 == [a1 EXCEPT !.id = "a2"]
  IN [initialAIAgentState EXCEPT
        !.agents = <<a1, a2>>,
        !.activeAgent = <<a1>>,
        !.conversationHistory =
           [i \in 1..ConversationCap |-> ConversationEntry(i, 1)]]

-----------------------------------------------------------------------------
(* Atoms: actions. set(atom, ...) replaces the cell's value in one step.   *)

\* a write function is called; the store is not involved
Dispatch ==
  /\ CanDispatch
  /\ fuel' = fuel - 1
  /\ UNCHANGED <<store, storage, outcome, dev, online, now, recent, dashboard>>

SetUI(u) ==
  /\ Dispatch
  /\ ui' = u
  /\ UNCHANGED <<timers, doc, agent, chat, user, vnc>>

SetAgent(a) ==
  /\ Dispatch
  /\ agent' = a
  /\ UNCHANGED <<ui, timers, doc, chat, user, vnc>>

SetChat(c) ==
  /\ Dispatch
  /\ chat' = c
  /\ UNCHANGED <<ui, timers, doc, agent, user, vnc>>

SetUser(us) ==
  /\ Dispatch
  /\ user' = us
  /\ UNCHANGED <<ui, timers, doc, agent, chat, vnc>>

SetVnc(v) ==
  /\ Dispatch
  /\ vnc' = v
  /\ UNCHANGED <<ui, timers, doc, agent, chat, user>>

ThemeAtomSet(theme, prefersDark) ==
  /\ Dispatch
  /\ ui' = themeAtomWrite(ui, theme)
  /\ doc' = themeAtomDocument(doc, theme, prefersDark)
  /\ UNCHANGED <<timers, agent, chat, user, vnc>>

PageTitleAtomSet(title) ==
  /\ Dispatch
  /\ ui' = pageTitleAtomWrite(ui, title)
  /\ doc' = [doc EXCEPT !.title = title]
  /\ UNCHANGED <<timers, agent, chat, user, vnc>>

\* the toast is pushed and its removal is scheduled in the same call
ShowToast(toast, r) ==
  /\ Dispatch
  /\ ui' = showToastAtom(ui, toast, now, r)
  /\ timers' = showToastAtomTimers(timers, toast, now, r)
  /\ UNCHANGED <<doc, agent, chat, user, vnc>>

\* the i-th pending timeout is due and its callback runs:
\* set(removeToastAtom, newToast.id)
TimerFire(i) ==
  /\ i \in 1..Len(timers)
  /\ timers[i].due <= now
  /\ ui' = removeToastAtom(ui, timers[i].toastId)
  /\ timers' = [k \in 1..(Len(timers) - 1) |->
                  IF k < i THEN timers[k] ELSE timers[k + 1]]
  /\ UNCHANGED <<store, storage, outcome, dev, online, doc, agent, chat, user,
               vnc, recent, dashboard, now, fuel>>

\* the earliest due time of the pending timeouts
NextDue == CHOOSE d \in {timers[i].due : i \in 1..Len(timers)} :
             \A i \in 1..Len(timers) : d <= timers[i].due

\* time passes until the next pending timeout is due
AdvanceToTimer ==
  /\ timers # <<>>
  /\ NextDue > now
  /\ now' = NextDue
  /\ UNCHANGED <<store, storage, outcome, dev, online, fuel>>
  /\ UNCHANGED atomVars

AtomsInit ==
  /\ dev = FALSE
  /\ online = TRUE
  /\ store = initialState(dev, online)
  /\ storage = NoStorage
  /\ outcome = "created"
  /\ now = StartNow
  /\ timers = <<>>
  /\ doc = initialDocument
  /\ chat = initialChatState
  /\ user = initialUserState
  /\ vnc = initialVNCState(StartNow)
  /\ recent = <<>>
  /\ dashboard = initialDashboard
  /\ \/ /\ ui = initialUIState
        /\ agent = initialAIAgentState
        /\ fuel = MaxOps
     \/ /\ ui = FullUIState
        /\ agent = FullAIAgentState
        /\ fuel = MaxOpsFull

UINext ==
  \/ \E th \in AtomInputs.themes :
       \E pd \in (IF th = "system" THEN BOOLEAN ELSE {FALSE}) :
            ThemeAtomSet(th, pd)
  \/ \E b \in BOOLEAN : SetUI(sidebarOpenAtomWrite(ui, b))
  \/ \E b \in BOOLEAN : SetUI(sidebarCollapsedAtomWrite(ui, b))
  \/ \E b \in BOOLEAN : SetUI(loadingAtomWrite(ui, b))
  \/ \E title \in AtomInputs.titles : PageTitleAtomSet(title)
  \/ \E bc \in AtomInputs.breadcrumbs : SetUI(breadcrumbsAtomWrite(ui, bc))
  \/ SetUI(toggleSidebarAtom(ui))
  \/ \E e \in AtomInputs.appErrors, r \in Rand :
          SetUI(addErrorAtom(ui, e, now, r))
  \/ \E id \in IdsOf(ui.errors) : SetUI(removeErrorAtom(ui, id))
  \/ \E id \in IdsOf(ui.errors) : SetUI(resolveErrorAtom(ui, id))
  \/ \E m \in AtomInputs.modals, r \in Rand :
          SetUI(openModalAtom(ui, m, now, r))
  \/ \E id \in IdsOf(ui.modals) : SetUI(closeModalAtom(ui, id))
  \/ \E id \in IdsOf(ui.modals) : SetUI(removeModalAtom(ui, id))
  \/ \E toast \in AtomInputs.toasts, r \in Rand : ShowToast(toast, r)
  \/ \E m \in AtomInputs.messages, r \in Rand :
          ShowToast(showSuccessToastAtom(m), r)
  \/ \E m \in AtomInputs.messages, r \in Rand :
          ShowToast(showErrorToastAtom(m), r)
  \/ \E m \in AtomInputs.messages, r \in Rand :
          ShowToast(showWarningToastAtom(m), r)
  \/ \E m \in AtomInputs.messages, r \in Rand :
          ShowToast(showInfoToastAtom(m), r)
  \/ \E id \in IdsOf(ui.toasts) : SetUI(removeToastAtom(ui, id))
  \/ \E n \in AtomInputs.notifications, r \in Rand :
          SetUI(addNotificationAtom(ui, n, now, r))
  \/ \E id \in IdsOf(ui.notifications) : SetUI(markNotificationReadAtom(ui, id))
  \/ SetUI(markAllNotificationsReadAtom(ui))
  \/ \E id \in IdsOf(ui.notifications) : SetUI(removeNotificationAtom(ui, id))
  \/ SetUI(clearAllNotificationsAtom(ui))
  \/ \E i \in 1..Len(timers) : TimerFire(i)
  \/ AdvanceToTimer

\* the write atoms of the list of agents and of the active agent
AgentListNext ==
  \/ \E ag \in {<<>>} \cup {<<x>> :
          x \in AtomInputs.agents} : SetAgent(setActiveAgentAtom(agent, ag))
  \/ \E ag \in AtomInputs.agents : SetAgent(addAgentAtom(agent, ag))
  \/ \E id \in AtomInputs.agentIds : SetAgent(removeAgentAtom(agent, id))
  \/ \E id \in AtomInputs.agentIds, st \in AtomInputs.agentStatuses :
          SetAgent(updateAgentStatusAtom(agent, id, st, now))

\* the write atoms of a streamed response
StreamingNext ==
  \/ \E b \in BOOLEAN : SetAgent(setProcessingAtom(agent, b))
  \/ \E e \in AtomInputs.errorStrings : SetAgent(setErrorAtom(agent, e))
  \/ \E id \in AtomInputs.messageIds :
          SetAgent(startStreamingMessageAtom(agent, id, now))
  \/ \E c \in AtomInputs.chunks : SetAgent(updateStreamingMessageAtom(agent, c))
  \/ SetAgent(completeStreamingMessageAtom(agent))

AgentNext ==
  \/ AgentListNext
  \/ StreamingNext
  \/ \E r \in Rand :
          SetAgent(addConversationEntryAtom(agent, ConversationEntry(now, r)))
  \/ \E id \in AtomInputs.agentIds, p \in AtomInputs.performances :
          SetAgent(updateAgentPerformanceAtom(agent, id, p, now))
  \/ SetAgent(clearConversationHistoryAtom(agent))

ChatNext ==
  \/ \E b \in BOOLEAN : SetChat(chatSetLoadingAtom(chat, b))
  \/ \E e \in AtomInputs.errorStrings : SetChat(chatSetErrorAtom(chat, e))
  \/ \E b \in BOOLEAN : SetChat(chatSetTypingAtom(chat, b))
  \/ SetChat(clearChatAtom(chat))

UserNext ==
  \/ \E p \in AtomInputs.preferences :
          SetUser(userPreferencesAtomWrite(user, p))
  \/ \E th \in AtomInputs.themes : SetUser(updateThemePreferenceAtom(user, th))
  \/ \E n \in AtomInputs.notificationPreferences :
          SetUser(updateNotificationPreferencesAtom(user, n))
  \/ \E u \in AtomInputs.uiPreferences :
          SetUser(updateUIPreferencesAtom(user, u))
  \/ \E b \in BOOLEAN : SetUser(userSetLoadingAtom(user, b))
  \/ \E e \in AtomInputs.errorStrings : SetUser(setUserErrorAtom(user, e))

\* the write atoms of userAtom.sessions
UserSessionNext ==
  \/ \E x \in SessionInputs.userSessions : SetUser(addUserSessionAtom(user, x))
  \/ \E id \in SessionInputs.userSessionIds :
          SetUser(updateSessionActivityAtom(user, id, now))
  \/ \E id \in SessionInputs.userSessionIds :
          SetUser(endUserSessionAtom(user, id))
  \/ SetUser(logoutUserAtom(user))
  \/ SetUser(clearUserDataAtom(user))

VncNext ==
  \/ \E x \in {<<>>} \cup {<<y>> : y \in SessionInputs.sessions} :
          SetVnc(setActiveSessionAtom(vnc, x))
  \/ \E x \in SessionInputs.sessions : SetVnc(addSessionAtom(vnc, x))
  \/ \E id \in SessionInputs.sessionIds : SetVnc(removeSessionAtom(vnc, id))
  \/ \E id \in SessionInputs.sessionIds, st \in SessionInputs.vncStatuses :
          SetVnc(updateSessionStatusAtom(vnc, id, st, now))
  \/ \E b \in BOOLEAN : SetVnc(setConnectingAtom(vnc, b))
  \/ \E e \in AtomInputs.errorStrings : SetVnc(setConnectionErrorAtom(vnc, e))
  \/ \E m \in SessionInputs.metrics :
          SetVnc(updatePerformanceMetricsAtom(vnc, m, now))
  \/ \E st \in SessionInputs.settings : SetVnc(updateVNCSettingsAtom(vnc, st))
  \/ \E vp \in SessionInputs.viewports : SetVnc(updateViewportAtom(vnc, vp))

AtomsNext == UINext \/ AgentNext \/ ChatNext \/ UserNext \/ Tick

SpecAtoms == AtomsInit /\ [][AtomsNext]_vars

\* aiAgentAtom while responses are streamed
StreamingInit ==
  /\ dev = FALSE
  /\ online = TRUE
  /\ store = initialState(dev, online)
  /\ storage = NoStorage
  /\ outcome = "created"
  /\ now = StartNow
  /\ ui = initialUIState
  /\ timers = <<>>
  /\ doc = initialDocument
  /\ chat = initialChatState
  /\ user = initialUserState
  /\ vnc = initialVNCState(StartNow)
  /\ recent = <<>>
  /\ dashboard = initialDashboard
  /\ agent \in {initialAIAgentState, FullAIAgentState}
  /\ fuel = MaxStreamOps

SpecStreaming == StreamingInit /\ [][StreamingNext \/ Tick]_vars

\* two sessions were added and connected, the first one was made active
ConnectedVNCState ==
  LET s1 == [id |-> "s1", host |-> "h", status |-> "connected",
             lastActiveAt |-> 0, viewport |-> [width |-> 800, scale |-> 1]]
      s2 == [s1 EXCEPT !.id = "s2"]
  IN [initialVNCState(StartNow) EXCEPT !.sessions = <<s1, s2>>,
                                       !.activeSession = <<s1>>]

\* two sessions of the user were added at millisecond 1
TwoSessionsUserState ==
  LET u1 == [id |-> "u1", userId |-> "user", lastActivity |-> 1,
             isActive |-> TRUE]
  IN [initialUserState EXCEPT !.sessions = <<u1, [u1 EXCEPT !.id = "u2"]>>]

\* the atoms that hold a list of entities: all at their initial values, or
\* all after two entities were added
EntitiesInit ==
  /\ dev = FALSE
  /\ online = TRUE
  /\ store = initialState(dev, online)
  /\ storage = NoStorage
  /\ outcome = "created"
  /\ now = StartNow
  /\ ui = initialUIState
  /\ timers = <<>>
  /\ doc = initialDocument
  /\ chat = initialChatState
  /\ recent = <<>>
  /\ dashboard = initialDashboard
  /\ fuel = MaxOps
  /\ \/ /\ agent = initialAIAgentState
        /\ vnc = initialVNCState(StartNow)
        /\ user = initialUserState
     \/ /\ agent = FullAIAgentState
        /\ vnc = ConnectedVNCState
        /\ user = TwoSessionsUserState

SpecEntities ==
  EntitiesInit /\ [][AgentListNext \/ VncNext \/ UserSessionNext \/ Tick]_vars

SpecVnc == EntitiesInit /\ [][VncNext \/ Tick]_vars

\* the event loop runs every timeout callback that is due, and time passes
TimerStep == AdvanceToTimer \/ \E i \in 1..Len(timers) : TimerFire(i)

\* uiAtom is a cell of its own: its handlers alone, the other cells at rest
\* recentNotificationsAtom is read. jotai evaluates the read function of a
\* derived atom when the atom was never read or when a dependency, here
\* uiAtom, has a new value; otherwise it returns the value it holds. A write
\* that left uiAtom's value structurally the same may or may not have
\* replaced the object, so either can happen after such a write.
ReadRecentNotifications ==
  /\ \E evaluate \in (IF recent = <<>> \/ recent[1].deps # ui THEN {TRUE}
                      ELSE IF recent[1].writes = fuel THEN {FALSE}
                      ELSE BOOLEAN) :
       recent' = <<[deps |-> ui, writes |-> fuel, readAt |-> now,
                    value |-> IF evaluate THEN recentNotificationsAtom(ui, now)
                              ELSE recent[1].value]>>
  /\ UNCHANGED <<store, storage, outcome, dev, online, ui, timers, doc, agent,
                 chat, user, vnc, dashboard, now, fuel>>

SpecUI == AtomsInit /\ [][UINext \/ Tick]_vars

SpecUIFair == SpecUI /\ WF_vars(TimerStep)

\* uiAtom and its derived atoms on a page that stays open for days
SpecUIDays ==
  AtomsInit /\ [][UINext \/ Tick \/ DayPasses \/ ReadRecentNotifications]_vars

-----------------------------------------------------------------------------
(* C1: after any sequence of global-store actions, performance.metrics has *)
(* at most 100 entries, security.events at most 1000, debug.logs at most   *)
(* 500 and debug.errors at most 100.                                       *)
C1_ListsWithinCaps ==
  /\ Len(store.performance.metrics) <= MetricsCap
  /\ Len(store.security.events) <= SecurityEventsCap
  /\ HasLogs(store) => Len(store.debug.logs) <= DebugLogsCap
  /\ HasErrors(store) => Len(store.debug.errors) <= DebugErrorsCap

\* two events were added to a full security.events list
C1_Witness ==
  /\ outcome = "committed"
  /\ Len(store.security.events) = SecurityEventsCap
  /\ store.security.events[SecurityEventsCap].timestamp >= StartNow
  /\ store.security.events[1].timestamp = 2

(* C2: persisting the store and reloading it into a new store restores     *)
(* settings, features and debug.enabled and leaves every other field,      *)
(* debug.logs and debug.errors included, at its initial value.             *)
C2_ReloadRestoresSubset ==
  [][(outcome' = "reloaded" /\ UI_STATE \in DOMAIN storage) =>
       store' = [initialState(dev, online') EXCEPT
                   !.settings = storage[UI_STATE].state.settings,
                   !.features = storage[UI_STATE].state.features,
                   !.debug.enabled = storage[UI_STATE].state.debug.enabled]]_vars

(* C3: after every committed action the blob under 'energent_ui_state' is  *)
(* the projection {settings, features, debug.enabled} of the state, and a  *)
(* step that changes no persisted field leaves a stored blob as it is.     *)
Projection(s) ==
  [settings |-> s.settings, features |-> s.features,
   debug |-> [enabled |-> s.debug.enabled]]

C4_FifoEviction ==
  [][/\ Len(store.performance.metrics) = MetricsCap
          => \A m \in MetricInputs(now), r1, r2 \in Rand :
               Commit(addPerformanceMetric(store, m, now, r1, r2))
               => store'.performance.metrics =
                     Append(Tail(store.performance.metrics), m)
     /\ Len(store.security.events) = SecurityEventsCap
          => \A e \in StoreInputs.events, r \in Rand :
               Commit(addSecurityEvent(store, e, now, r))
               => store'.security.events =
                     Append(Tail(store.security.events),
                            StampedEvent(e, now, r))
     /\ (HasLogs(store) /\ store.debug.enabled
          /\ Len(store.debug.logs) = DebugLogsCap)
          => \A l \in StoreInputs.logs, r \in Rand :
               Commit(addDebugLog(store, l, now, r))
               => store'.debug.logs =
                     Append(Tail(store.debug.logs), StampedLog(l, now, r))
     /\ (HasErrors(store) /\ Len(store.debug.errors) = DebugErrorsCap)
          => \A e \in StoreInputs.errors, c \in StoreInputs.contexts,
                r \in Rand :
               Commit(addErrorLog(store, e, c, now, r))
               => store'.debug.errors =
                     Append(Tail(store.debug.errors),
                            StampedError(e, c, now, r))]_vars

\* a metric was added to a full performance.metrics list
C4_Witness ==
  /\ outcome = "committed"
  /\ Len(store.performance.metrics) = MetricsCap
  /\ store.performance.metrics[MetricsCap].timestamp >= StartNow
  /\ store.performance.metrics[1].timestamp = 2
  /\ store.performance.metrics[MetricsCap - 1].timestamp = MetricsCap

(* C5: after any sequence of atom actions, uiAtom.errors has at most 10    *)
(* entries, uiAtom.notifications at most 50 and                            *)
(* aiAgentAtom.conversationHistory at most 50.                             *)
C5_AtomListsWithinCaps ==
  /\ Len(ui.errors) <= ErrorsCap
  /\ Len(ui.notifications) <= NotificationsCap
  /\ Len(agent.conversationHistory) <= ConversationCap

\* an error was added to a full uiAtom.errors list
C5_Witness ==
  /\ Len(ui.errors) = ErrorsCap
  /\ ui.errors[1].timestamp >= StartNow
  /\ ui.errors[ErrorsCap].timestamp = 2

(* C6: removing a toast, a modal or a notification by id twice gives the   *)
(* same uiAtom value as removing it once, for ids in the list and for an   *)
(* id that is not; removing an id that is not in the list changes nothing. *)
InList(list, id) == \E i \in 1..Len(list) : list[i].id = id

C6_RemoveIdempotent ==
  /\ \A id \in IdsOf(ui.toasts) :
       /\ removeToastAtom(removeToastAtom(ui, id), id) = removeToastAtom(ui, id)
       /\ ~InList(ui.toasts, id) => removeToastAtom(ui, id) = ui
  /\ \A id \in IdsOf(ui.modals) :
       /\ removeModalAtom(removeModalAtom(ui, id), id) = removeModalAtom(ui, id)
       /\ ~InList(ui.modals, id) => removeModalAtom(ui, id) = ui
  /\ \A id \in IdsOf(ui.notifications) :
       /\ removeNotificationAtom(removeNotificationAtom(ui, id), id)
            = removeNotificationAtom(ui, id)
       /\ ~InList(ui.notifications, id) => removeNotificationAtom(ui, id) = ui

\* two toasts that were given the same id are in the list
C6_Witness ==
  /\ Len(ui.toasts) = 2
  /\ ui.toasts[1].id = ui.toasts[2].id
  /\ removeToastAtom(ui, ui.toasts[1].id).toasts = <<>>

(* C7: writing v to themeAtom, sidebarOpenAtom, sidebarCollapsedAtom,      *)
(* loadingAtom, pageTitleAtom or breadcrumbsAtom and then reading the same *)
(* cell gives v; after writing userPreferencesAtom, each written key reads *)
(* as written.                                                             *)
C7_ReadAfterWrite ==
  [][/\ \A th \in AtomInputs.themes, pd \in BOOLEAN :
          ThemeAtomSet(th, pd) => themeAtomRead(ui') = th
     /\ \A b \in BOOLEAN :
          /\ SetUI(sidebarOpenAtomWrite(ui, b))
                => sidebarOpenAtomRead(ui') = b
          /\ SetUI(sidebarCollapsedAtomWrite(ui, b))
                => sidebarCollapsedAtomRead(ui') = b
          /\ SetUI(loadingAtomWrite(ui, b))
                => loadingAtomRead(ui') = b
     /\ \A title \in AtomInputs.titles :
          PageTitleAtomSet(title) => pageTitleAtomRead(ui') = title
     /\ \A bc \in AtomInputs.breadcrumbs :
          SetUI(breadcrumbsAtomWrite(ui, bc)) => breadcrumbsAtomRead(ui') = bc
     /\ \A p \in AtomInputs.preferences :
          SetUser(userPreferencesAtomWrite(user, p))
          => \A k \in DOMAIN p : userPreferencesAtomRead(user')[k] = p[k]]_vars

\* a cell of uiAtom and the preferences were written with new values
C7_Witness ==
  /\ ui.pageTitle = "Chat"
  /\ user.preferences.language = "fr"
  /\ ~user.preferences.notifications.push

(* C8: every toast added by showToastAtom is eventually absent from        *)
(* uiAtom.toasts: whenever the list holds toasts, the pending timeouts     *)
(* fire and the list becomes empty, with no call of removeToastAtom by the *)
(* user interface needed.                                                  *)
C8_ToastsEventuallyGone == (ui.toasts # <<>>) ~> (ui.toasts = <<>>)

\* the timeouts of two toasts have run and the list is empty again
C8_Witness ==
  /\ ui.toasts = <<>>
  /\ timers = <<>>
  /\ now >= StartNow + DefaultToastDuration
  /\ fuel = 0

(* C9: with distinct toast ids, a timeout that fires after its toast was   *)
(* removed changes nothing in uiAtom, and a timeout that fires while its   *)
(* toast is shown removes that toast only: the other toasts stay, in the   *)
(* same order.                                                             *)
TimerIdsDistinct ==
  \A i, j \in 1..Len(timers) : i # j => timers[i].toastId # timers[j].toastId

WithoutIndex(list, k) ==
  [i \in 1..(Len(list) - 1) |-> IF i < k THEN list[i] ELSE list[i + 1]]

CellsChanged ==
  {c \in {"ui", "agent", "chat", "user", "store"} :
     \/ c = "ui" /\ ui' # ui
     \/ c = "agent" /\ agent' # agent
     \/ c = "chat" /\ chat' # chat
     \/ c = "user" /\ user' # user
     \/ c = "store" /\ store' # store}

C11_ErrorsRecordedNotRaised ==
  /\ ~addErrorLogThrows(store)
  /\ \A e \in StoreInputs.errors, c \in StoreInputs.contexts, r \in Rand :
       LET before == store.debug.errors
           after == addErrorLog(store, e, c, now, r).debug.errors
       IN /\ after # <<>>
          /\ after[Len(after)].error = e
          /\ after[Len(after)].context = c
          /\ SubSeq(after, 1, Len(after) - 1)
               = IF Len(before) < DebugErrorsCap THEN before ELSE Tail(before)
  /\ \A e \in AtomInputs.appErrors, r \in Rand :
       LET after == addErrorAtom(ui, e, now, r).errors
       IN /\ after # <<>>
          /\ after[1].message = e.message
          /\ ~after[1].resolved
          /\ Tail(after) = IF Len(ui.errors) < ErrorsCap THEN ui.errors
                           ELSE SubSeq(ui.errors, 1, ErrorsCap - 1)

\* the elements of list at the indices in S, in the order of the list
AtIndices(list, S) ==
  [k \in 1..Cardinality(S) |->
     list[CHOOSE i \in S : Cardinality({j \in S : j <= i}) = k]]

(* C12: in every reachable state the derived cells equal their defining    *)
(* function of uiAtom: the unread count is the number of notifications     *)
(* with read = false, openModalsAtom the modals with isOpen = true,        *)
(* unresolvedErrorsAtom the errors with resolved = false, and              *)
(* hasActiveToastsAtom says that toasts is not empty. After                *)
(* markAllNotificationsReadAtom the unread count is 0; after               *)
(* closeModalAtom(id) the modal found under id is no longer in             *)
(* openModalsAtom and modals still holds it, at its place, closed.         *)
C12_DerivedCellsAreFunctions ==
  /\ unreadNotificationCountAtom(ui)
       = Cardinality({i \in 1..Len(ui.notifications) : ~ui.notifications[i].read})
  /\ openModalsAtom(ui)
       = AtIndices(ui.modals, {i \in 1..Len(ui.modals) : ui.modals[i].isOpen})
  /\ unresolvedErrorsAtom(ui)
       = AtIndices(ui.errors, {i \in 1..Len(ui.errors) : ~ui.errors[i].resolved})
  /\ hasActiveToastsAtom(ui) <=> ui.toasts # <<>>
  /\ unreadNotificationCountAtom(markAllNotificationsReadAtom(ui)) = 0
  /\ \A id \in IdsOf(ui.modals) :
       LET after == closeModalAtom(ui, id)
           k == findIndex(ui.modals, id)
       IN /\ Len(after.modals) = Len(ui.modals)
          /\ \A i \in 1..Len(ui.modals) :
               after.modals[i]
                 = IF i = k THEN [ui.modals[i] EXCEPT !.isOpen = FALSE]
                   ELSE ui.modals[i]
          /\ Len(openModalsAtom(after))
               = Len(openModalsAtom(ui)) - (IF k # 0 /\ ui.modals[k].isOpen THEN 1 ELSE 0)
          /\ (\A i, j \in 1..Len(ui.modals) :
                i # j => ui.modals[i].id # ui.modals[j].id)
             => ~InList(openModalsAtom(after), id)

\* a modal was opened and then closed: it is still in modals and no modal
\* is open
C12_Witness ==
  /\ ui.modals # <<>>
  /\ ~ui.modals[1].isOpen
  /\ openModalsAtom(ui) = <<>>

\* the value of uiAtom without one of its fields
Rest(u, field) == [f \in DOMAIN u \ {field} |-> u[f]]

(* C13: a single-field setter changes only the requested field. A write of *)
(* sidebarOpenAtom, sidebarCollapsedAtom, loadingAtom, pageTitleAtom or    *)
(* breadcrumbsAtom, or a call of toggleSidebarAtom, gives the field its    *)
(* new value and leaves every other field of uiAtom as it was;             *)
(* toggleSidebarAtom applied twice restores sidebarOpen.                   *)
C13_SettersChangeOneField ==
  [][/\ \A b \in BOOLEAN :
          /\ SetUI(sidebarOpenAtomWrite(ui, b))
             => /\ ui'.sidebarOpen = b
                /\ Rest(ui', "sidebarOpen") = Rest(ui, "sidebarOpen")
          /\ SetUI(sidebarCollapsedAtomWrite(ui, b))
             => /\ ui'.sidebarCollapsed = b
                /\ Rest(ui', "sidebarCollapsed") = Rest(ui, "sidebarCollapsed")
          /\ SetUI(loadingAtomWrite(ui, b))
             => /\ ui'.loading = b
                /\ Rest(ui', "loading") = Rest(ui, "loading")
     /\ \A title \in AtomInputs.titles :
          PageTitleAtomSet(title)
          => /\ ui'.pageTitle = title
             /\ Rest(ui', "pageTitle") = Rest(ui, "pageTitle")
     /\ \A bc \in AtomInputs.breadcrumbs :
          SetUI(breadcrumbsAtomWrite(ui, bc))
          => /\ ui'.breadcrumbs = bc
             /\ Rest(ui', "breadcrumbs") = Rest(ui, "breadcrumbs")
     /\ SetUI(toggleSidebarAtom(ui))
        => /\ ui'.sidebarOpen = ~ui.sidebarOpen
           /\ Rest(ui', "sidebarOpen") = Rest(ui, "sidebarOpen")
           /\ toggleSidebarAtom(ui').sidebarOpen = ui.sidebarOpen]_vars

\* the sidebar of a collapsed layout was toggled shut: the collapsed flag
\* is still set
C13_Witness ==
  /\ ~ui.sidebarOpen
  /\ ui.sidebarCollapsed
  /\ fuel = 0

\* timestamps do not increase from the head of the list to its tail
NewestFirst(list) ==
  \A i, j \in 1..Len(list) : i < j => list[i].timestamp >= list[j].timestamp

\* the list without its last element once it holds cap elements
RoomForOne(list, cap) ==
  IF Len(list) < cap THEN list ELSE SubSeq(list, 1, cap - 1)

(* C15: uiAtom.errors and uiAtom.notifications are kept newest-first.      *)
(* addErrorAtom / addNotificationAtom put the new record at the head (an   *)
(* error with resolved = false, a notification with read = false); when    *)
(* the list already holds 10 / 50 records the one dropped is the oldest,   *)
(* at the tail, and the other records keep their order.                    *)
C15_NewestFirst ==
  [][/\ \A e \in AtomInputs.appErrors, r \in Rand :
          SetUI(addErrorAtom(ui, e, now, r))
          => /\ ui'.errors[1].id = generateId(now, r)
             /\ ui'.errors[1].timestamp = now
             /\ ui'.errors[1].message = e.message
             /\ ~ui'.errors[1].resolved
             /\ Tail(ui'.errors) = RoomForOne(ui.errors, ErrorsCap)
             /\ NewestFirst(ui'.errors)
     /\ \A n \in AtomInputs.notifications, r \in Rand :
          SetUI(addNotificationAtom(ui, n, now, r))
          => /\ ui'.notifications[1].id = generateId(now, r)
             /\ ui'.notifications[1].timestamp = now
             /\ ui'.notifications[1].message = n.message
             /\ ~ui'.notifications[1].read
             /\ Tail(ui'.notifications)
                  = RoomForOne(ui.notifications, NotificationsCap)
             /\ NewestFirst(ui'.notifications)]_vars

\* a notification was added to the full list: it is at the head, the list
\* is still full and the oldest record, of time 1, is gone from the tail
C15_Witness ==
  /\ Len(ui.notifications) = NotificationsCap
  /\ ui.notifications[1].timestamp >= StartNow
  /\ ui.notifications[NotificationsCap].timestamp = 2

\* the alerts the thresholds call for, the memory alert first
AlertsCalledFor(metric) ==
  (IF metric.memoryUsage > 100 * MiB
   THEN <<[type |-> "memory",
           severity |-> IF metric.memoryUsage > 200 * MiB
                        THEN "critical" ELSE "high"]>>
   ELSE <<>>)
  \o (IF metric.renderTime > 50
      THEN <<[type |-> "render",
              severity |-> IF metric.renderTime > 100 THEN "high" ELSE "medium"]>>
      ELSE <<>>)

(* C16: addPerformanceMetric appends an unresolved 'memory' alert exactly  *)
(* when memoryUsage is above 100 MiB, 'critical' above 200 MiB and 'high'  *)
(* otherwise, and an unresolved 'render' alert exactly when renderTime is  *)
(* above 50, 'high' above 100 and 'medium' otherwise. At or below the      *)
(* thresholds no alert is appended; both alerts can be appended by one     *)
(* call, the memory alert first; the alerts already there are kept.        *)
C16_AlertsFollowThresholds ==
  \A metric \in ThresholdMetrics(now) \cup MetricInputs(now) :
    LET before == store.performance.alerts
        after == addPerformanceMetric(store, metric, now, 1, 2).performance.alerts
        added == SubSeq(after, Len(before) + 1, Len(after))
        called == AlertsCalledFor(metric)
    IN /\ Len(after) >= Len(before)
       /\ SubSeq(after, 1, Len(before)) = before
       /\ Len(added) = Len(called)
       /\ \A i \in 1..Len(added) :
            /\ added[i].type = called[i].type
            /\ added[i].severity = called[i].severity
            /\ ~added[i].resolved
            /\ added[i].timestamp = now

\* one metric above both thresholds was recorded: a critical memory alert
\* is followed by a medium render alert of the same time
C16_Witness ==
  /\ store.performance.metrics # <<>>
  /\ Len(store.performance.alerts) >= 2
  /\ LET n == Len(store.performance.alerts)
         a == store.performance.alerts
     IN /\ a[n - 1].type = "memory" /\ a[n - 1].severity = "critical"
        /\ a[n].type = "render" /\ a[n].severity = "medium"
        /\ a[n - 1].timestamp = a[n].timestamp
        /\ a[n].timestamp >= StartNow

(* C17: addSecurityEvent appends the event, with a generated id and the    *)
(* current time as its timestamp, at the end of security.events; it sets   *)
(* security.isSecure to false when the severity of the event is 'high' or  *)
(* 'critical' and leaves it as it was for 'low' and 'medium'.              *)
C17_SecurityEventRecorded ==
  [][\A e \in StoreInputs.events, r \in Rand :
       Commit(addSecurityEvent(store, e, now, r))
       => LET before == store.security.events
              after == store'.security.events
              last == after[Len(after)]
          IN /\ after # <<>>
             /\ last.id = generateId(now, r)
             /\ last.timestamp = now
             /\ last.severity = e.severity
             /\ last.type = e.type
             /\ SubSeq(after, 1, Len(after) - 1)
                  = IF Len(before) < SecurityEventsCap THEN before
                    ELSE Tail(before)
             /\ store'.security.isSecure
                  = IF e.severity \in {"high", "critical"} THEN FALSE
                    ELSE store.security.isSecure]_vars

\* a 'high' event and then a 'low' event were recorded: isSecure is false
C17_Witness ==
  /\ Len(store.security.events) = 2
  /\ store.security.events[1].severity = "high"
  /\ store.security.events[2].severity = "low"
  /\ ~store.security.isSecure

(* C18: performSecurityCheck sets security.lastSecurityCheck to the        *)
(* current time and security.isSecure to true exactly when no event of     *)
(* severity 'critical' in security.events is less than 24 hours old,       *)
(* whatever isSecure was before; security.events is left unchanged.        *)
C18_SecurityCheckRecomputes ==
  [][Commit(performSecurityCheck(store, now))
     => /\ store'.security.lastSecurityCheck = now
        /\ store'.security.events = store.security.events
        /\ store'.security.isSecure
             <=> ~\E i \in 1..Len(store.security.events) :
                    /\ store.security.events[i].severity = "critical"
                    /\ store.security.events[i].timestamp > now - DayMs]_vars

\* a critical event was recorded, exactly 24 hours passed and the check
\* ran: the store is secure again
C18_Witness ==
  /\ store.security.lastSecurityCheck = now
  /\ Len(store.security.events) = 1
  /\ store.security.events[1].severity = "critical"
  /\ now - store.security.events[1].timestamp = DayMs
  /\ store.security.isSecure

\* an event of one of the severities, less than 24 hours old at time t
FreshEvent(events, severities, t) ==
  \E i \in 1..Len(events) :
    /\ events[i].severity \in severities
    /\ t - events[i].timestamp < DayMs

(* C19: once addSecurityEvent has recorded a 'high' or 'critical' event,   *)
(* security.isSecure stays false while that event is less than 24 hours    *)
(* old and still in security.events, unless updateSecurityStatus(true) or  *)
(* reset is called; performSecurityCheck does not turn it back to true.    *)
C19_InsecureWhileEventFresh ==
  [][(/\ ~store.security.isSecure
      /\ FreshEvent(store.security.events, {"high", "critical"}, now)
      /\ FreshEvent(store'.security.events, {"high", "critical"}, now')
      /\ ~Commit(updateSecurityStatus(store, TRUE))
      /\ ~Commit(reset(store, dev, online)))
     => ~store'.security.isSecure]_vars

(* C20: addDebugLog is a no-op while debug.enabled is false: the whole     *)
(* state of the store, debug.logs included, is unchanged. While            *)
(* debug.enabled is true it appends exactly one log, the one it was        *)
(* given, at the end of debug.logs.                                        *)
C20_DebugLogOnlyWhenEnabled ==
  \A l \in StoreInputs.logs, r \in Rand :
    IF ~store.debug.enabled
    THEN /\ ~addDebugLogThrows(store)
         /\ addDebugLog(store, l, now, r) = store
    ELSE /\ ~addDebugLogThrows(store)
         /\ LET before == store.debug.logs
                after == addDebugLog(store, l, now, r).debug.logs
            IN /\ after # <<>>
               /\ after[Len(after)] = StampedLog(l, now, r)
               /\ SubSeq(after, 1, Len(after) - 1)
                    = IF Len(before) < DebugLogsCap THEN before
                      ELSE Tail(before)

(* C14: recentNotificationsAtom, whenever it is read, equals exactly the   *)
(* notifications of uiAtom whose timestamp is less than 24 hours before    *)
(* the moment of the read, in their order, also when time has advanced     *)
(* with no change of uiAtom since the previous read.                       *)
C14_RecentAtEveryRead ==
  recent # <<>>
  => LET list == recent[1].deps.notifications
     IN recent[1].value
          = AtIndices(list, {i \in 1..Len(list) :
                               recent[1].readAt - list[i].timestamp < DayMs})

(* C21: reset returns every data field of the store to its initial value   *)
(* after any sequence of actions: metrics, alerts, events, logs and errors *)
(* are empty, settings and features are the defaults, isInitialized is     *)
(* false. The methods stay, and applied after reset they give what they    *)
(* give on a newly created store.                                          *)
C21_ResetRestoresInitial ==
  [][Commit(reset(store, dev, online))
     => LET fresh == initialState(dev, online)
        IN /\ ~store'.isInitialized
           /\ store'.settings = defaultSettings
           /\ store'.performance.metrics = <<>>
           /\ store'.performance.alerts = <<>>
           /\ store'.security.events = <<>>
           /\ store'.security.isSecure
           /\ HasLogs(store') /\ store'.debug.logs = <<>>
           /\ HasErrors(store') /\ store'.debug.errors = <<>>
           /\ store'.features = fresh.features
           /\ store' = fresh
           /\ ~addErrorLogThrows(store')
           /\ ~addDebugLogThrows(store')
           /\ \A e \in StoreInputs.events, r \in Rand :
                addSecurityEvent(store', e, now, r)
                  = addSecurityEvent(fresh, e, now, r)
           /\ \A f \in StoreInputs.features :
                toggleFeatureFlag(store', f) = toggleFeatureFlag(fresh, f)
           /\ \A st \in StoreInputs.settings :
                updateSettings(store', st) = updateSettings(fresh, st)]_vars

\* settings were changed and the store was reset: the defaults are back in
\* the store and in the stored blob
C21_Witness ==
  /\ outcome = "committed"
  /\ fuel = 0
  /\ store = initialState(dev, online)
  /\ UI_STATE \in DOMAIN storage
  /\ storage[UI_STATE] = serialize(store)

(* C22: toggleFeatureFlag is an involution: for any feature name, in the   *)
(* features map or not, toggling it twice leaves the map equal to what it  *)
(* was; setFeatureFlag and toggleFeatureFlag change no flag other than the *)
(* named one.                                                              *)
C22_ToggleFlagInvolution ==
  \A f \in StoreInputs.features :
    /\ toggleFeatureFlag(toggleFeatureFlag(store, f), f).features
         = store.features
    /\ Rest(toggleFeatureFlag(store, f).features, f) = Rest(store.features, f)
    /\ \A b \in BOOLEAN :
         Rest(setFeatureFlag(store, f, b).features, f) = Rest(store.features, f)

\* the chunks of the streaming message, none when there is no message
Streamed(a) ==
  IF a.streamingMessage = <<>> THEN <<>> ELSE a.streamingMessage[1].content

(* C23: streaming accumulates in order. startStreamingMessageAtom begins   *)
(* with no chunk, each updateStreamingMessageAtom puts its chunk after the *)
(* chunks already there, and no other action changes the chunks of a       *)
(* message that stays; so when completeStreamingMessageAtom runs with a    *)
(* message present lastResponse is the chunks passed since the last start, *)
(* in call order, isComplete is true and isProcessing false. Without a     *)
(* streaming message update and complete change nothing.                   *)
C23_StreamingAccumulates ==
  [][/\ \A id \in AtomInputs.messageIds :
          SetAgent(startStreamingMessageAtom(agent, id, now))
          => Streamed(agent') = <<>> /\ agent'.streamingMessage # <<>>
     /\ \A c \in AtomInputs.chunks :
          SetAgent(updateStreamingMessageAtom(agent, c))
          => IF agent.streamingMessage = <<>> THEN agent' = agent
             ELSE /\ Streamed(agent') = Append(Streamed(agent), c)
                  /\ agent'.lastResponse = agent.lastResponse
     /\ SetAgent(completeStreamingMessageAtom(agent))
        => IF agent.streamingMessage = <<>> THEN agent' = agent
           ELSE /\ agent'.lastResponse = <<Streamed(agent)>>
                /\ Streamed(agent') = Streamed(agent)
                /\ agent'.streamingMessage[1].isComplete
                /\ ~agent'.isProcessing
     /\ (/\ agent.streamingMessage # <<>>
         /\ agent'.streamingMessage # <<>>
         /\ \A c \in AtomInputs.chunks :
              ~SetAgent(updateStreamingMessageAtom(agent, c))
         /\ \A id \in AtomInputs.messageIds :
              ~SetAgent(startStreamingMessageAtom(agent, id, now)))
        => Streamed(agent') = Streamed(agent)]_vars

\* a message was started, the chunks "b" and then "a" were passed and the
\* message was completed
C23_Witness ==
  /\ agent.streamingMessage # <<>>
  /\ agent.streamingMessage[1].isComplete
  /\ agent.lastResponse = << <<"b", "a">> >>
  /\ ~agent.isProcessing
  /\ fuel = 0

(* C24: in every reachable state of aiAgentAtom a streaming message that   *)
(* exists and is not complete implies isProcessing = true: whenever        *)
(* isProcessing is false, streamingMessage is null or complete.            *)
C24_StreamingImpliesProcessing ==
  (agent.streamingMessage # <<>> /\ ~agent.streamingMessage[1].isComplete)
  => agent.isProcessing

\* no two entries of the list have the same id
UniqueIds(list) ==
  \A i, j \in 1..Len(list) : i # j => list[i].id # list[j].id

\* after is before with the entry put at the place of the entry of the same
\* id, or at the end when before has no entry of that id
Upserted(before, after, entry) ==
  IF \E i \in 1..Len(before) : before[i].id = entry.id
  THEN /\ Len(after) = Len(before)
       /\ \A i \in 1..Len(before) :
            after[i] = IF before[i].id = entry.id THEN entry ELSE before[i]
  ELSE after = Append(before, entry)

(* C25: ids are unique in the upserted lists. After any sequence of add    *)
(* and remove actions aiAgentAtom.agents, vncAtom.sessions and             *)
(* userAtom.sessions hold at most one entry per id; adding an entry whose  *)
(* id is in the list replaces that entry at its place and keeps the        *)
(* length, adding any other entry appends it at the end.                   *)
C25_UpsertKeepsIdsUnique ==
  [][/\ UniqueIds(agent.agents) /\ UniqueIds(agent'.agents)
     /\ UniqueIds(vnc.sessions) /\ UniqueIds(vnc'.sessions)
     /\ UniqueIds(user.sessions) /\ UniqueIds(user'.sessions)
     /\ \A ag \in AtomInputs.agents :
          SetAgent(addAgentAtom(agent, ag))
          => Upserted(agent.agents, agent'.agents, ag)
     /\ \A x \in SessionInputs.sessions :
          SetVnc(addSessionAtom(vnc, x))
          => Upserted(vnc.sessions, vnc'.sessions, x)
     /\ \A x \in SessionInputs.userSessions :
          SetUser(addUserSessionAtom(user, x))
          => Upserted(user.sessions, user'.sessions, x)]_vars

\* agent a1 was added again, as processing, to the list of a1 and a2: it
\* took the place of the idle a1 and a2 is still second
C25_Witness ==
  /\ Len(agent.agents) = 2
  /\ agent.agents[1].id = "a1"
  /\ agent.agents[1].status = "processing"
  /\ agent.agents[1].lastActiveAt = 0
  /\ agent.agents[2].id = "a2"
  /\ fuel = MaxOps - 1

\* the entries of the list with the id of the active entity have its status
ActiveConsistent(active, list) ==
  active # <<>>
  => \A i \in 1..Len(list) :
       list[i].id = active[1].id => list[i].status = active[1].status

\* the list and the active entity after the entity of that id was removed
Removed(active, list, activeAfter, listAfter, id) ==
  /\ ~InList(listAfter, id)
  /\ activeAfter = IF active # <<>> /\ active[1].id = id THEN <<>> ELSE active

(* C26: the active entity stays consistent with its list. In every         *)
(* reachable state a non-null activeAgent (VNC activeSession) has the      *)
(* status of the entry of the same id in agents (sessions), when there is  *)
(* one; after removeAgentAtom(id) / removeSessionAtom(id) no entry of that *)
(* id is in the list and the active entity is null if it had that id,      *)
(* unchanged otherwise.                                                    *)
C26_ActiveMatchesList ==
  /\ ActiveConsistent(agent.activeAgent, agent.agents)
  /\ ActiveConsistent(vnc.activeSession, vnc.sessions)
  /\ \A id \in AtomInputs.agentIds :
       LET after == removeAgentAtom(agent, id)
       IN Removed(agent.activeAgent, agent.agents,
                  after.activeAgent, after.agents, id)
  /\ \A id \in SessionInputs.sessionIds :
       LET after == removeSessionAtom(vnc, id)
       IN Removed(vnc.activeSession, vnc.sessions,
                  after.activeSession, after.sessions, id)

(* C27: in every reachable state of vncAtom isConnecting = true implies    *)
(* connectionError = null. setConnectingAtom(true) clears the error,       *)
(* setConnectionErrorAtom always clears isConnecting, setActiveSessionAtom *)
(* clears the error and leaves isConnecting, and no other action writes    *)
(* either field.                                                           *)
C27_ConnectingHasNoError ==
  [][/\ vnc.isConnecting => vnc.connectionError = NoError
     /\ vnc'.isConnecting => vnc'.connectionError = NoError
     /\ SetVnc(setConnectingAtom(vnc, TRUE))
        => vnc'.isConnecting /\ vnc'.connectionError = NoError
     /\ SetVnc(setConnectingAtom(vnc, FALSE))
        => ~vnc'.isConnecting /\ vnc'.connectionError = vnc.connectionError
     /\ \A e \in AtomInputs.errorStrings :
          SetVnc(setConnectionErrorAtom(vnc, e))
          => ~vnc'.isConnecting /\ vnc'.connectionError = e
     /\ \A x \in {<<>>} \cup {<<y>> : y \in SessionInputs.sessions} :
          SetVnc(setActiveSessionAtom(vnc, x))
          => /\ vnc'.connectionError = NoError
             /\ vnc'.isConnecting = vnc.isConnecting
     /\ (/\ \A b \in BOOLEAN : ~SetVnc(setConnectingAtom(vnc, b))
         /\ \A e \in AtomInputs.errorStrings :
              ~SetVnc(setConnectionErrorAtom(vnc, e))
         /\ \A x \in {<<>>} \cup {<<y>> : y \in SessionInputs.sessions} :
              ~SetVnc(setActiveSessionAtom(vnc, x)))
        => /\ vnc'.isConnecting = vnc.isConnecting
           /\ vnc'.connectionError = vnc.connectionError]_vars

\* a connection failed and a new attempt was started: the error is gone
C27_Witness ==
  /\ vnc.isConnecting
  /\ vnc.connectionError = NoError
  /\ vnc.sessions = <<>>
  /\ fuel = 0

------------------------------------------------------------------------------
(* Dashboard.handleInitialize *)

\* setTimeout(resolve, 1000)
InitializeDelay == 1000

\* the Initialize button is clicked; Button is disabled while isLoading and
\* Dashboard disables it once isInitialized. setIsLoading(true), then the
\* handler awaits a promise that the timeout resolves
HandleInitializeStart ==
  /\ ~dashboard.isLoading
  /\ ~store.isInitialized
  /\ dashboard' = [isLoading |-> TRUE, due |-> now + InitializeDelay]
  /\ UNCHANGED <<store, storage, outcome, dev, online, ui, timers, doc, agent,
                 chat, user, vnc, recent, now, fuel>>

\* time passes until the timeout of the waiting handler is due
AdvanceToInitialize ==
  /\ dashboard.isLoading
  /\ now < dashboard.due
  /\ now' = dashboard.due
  /\ UNCHANGED <<store, storage, outcome, dev, online, fuel>>
  /\ UNCHANGED atomVars

\* the timeout fired and the handler runs to its end. The awaited promise has
\* no reject, so the first call that can fail is initialize(): its recipe
\* cannot throw, and persist then writes the blob with localStorage.setItem,
\* which throws when the quota is exceeded. The state was set before that
\* write. catch shows the error toast, finally calls setIsLoading(false).
\* The metric is drawn below both alert thresholds (Math.random() * 50 and
\* Math.random() * 100 MiB)
HandleInitializeResume ==
  /\ dashboard.isLoading
  /\ dashboard.due <= now
  /\ \E writable \in BOOLEAN, r \in Rand :
       \E m \in {x \in MetricInputs(now) :
                   /\ x.renderTime < RenderAlertThreshold
                   /\ x.memoryUsage < MemoryAlertThreshold} :
         LET toast == IF writable
                      THEN showSuccessToastAtom(
                             "Application initialized successfully!")
                      ELSE showErrorToastAtom(
                             "Failed to initialize application")
         IN /\ store' = IF writable
                        THEN addPerformanceMetric(initialize(store, now),
                                                  m, now, 1, 1)
                        ELSE initialize(store, now)
            /\ storage' = IF writable THEN setItem(storage, store')
                          ELSE storage
            /\ outcome' = IF writable THEN "committed" ELSE "threw"
            /\ ui' = showToastAtom(ui, toast, now, r)
            /\ timers' = showToastAtomTimers(timers, toast, now, r)
  /\ dashboard' = [dashboard EXCEPT !.isLoading = FALSE]
  /\ UNCHANGED <<dev, online, doc, agent, chat, user, vnc, recent, now, fuel>>

\* the Dashboard page next to the write atoms of uiAtom; a pending timeout
\* always fires
SpecDashboard ==
  /\ AtomsInit
  /\ [][HandleInitializeStart \/ AdvanceToInitialize
          \/ HandleInitializeResume \/ UINext \/ Tick]_vars
  /\ WF_vars(AdvanceToInitialize)
  /\ WF_vars(HandleInitializeResume)

\* a toast of the given type and message is in the list
Shown(u, type, message) ==
  \E i \in 1..Len(u.toasts) :
    u.toasts[i].type = type /\ u.toasts[i].message = message

\* C28: every started handleInitialize eventually sets isLoading back to
\* false; when it ends on the success path isInitialized is true and the
\* success toast has been shown, when it ends on the failure path the error
\* toast has been shown and isInitialized is what it was before.
C28_InitializeEnds ==
  /\ [][(dashboard.isLoading /\ ~dashboard'.isLoading)
          => IF outcome' = "threw"
             THEN /\ Shown(ui', "error", "Failed to initialize application")
                  /\ store'.isInitialized = store.isInitialized
             ELSE /\ store'.isInitialized
                  /\ Shown(ui', "success",
                           "Application initialized successfully!")]_vars
  /\ (dashboard.isLoading ~> ~dashboard.isLoading)

====
